---- MODULE Spec2Model ----
(***************************************************************************)
(* dombili: a thin facade over the host DOM.                               *)
(*   mutation module : text, normalize, el, before, after, append,         *)
(*                     prepend, replace, remove, html, setAttr, attr,      *)
(*                     setData, data                                       *)
(*   query module    : matches, parent, closest                            *)
(* The state is the host tree the functions act on; every action is one    *)
(* call of an exported function.                                           *)
(***************************************************************************)
EXTENDS Integers, Sequences, FiniteSets

\* Size of the pool of host node identities.
MaxNodes == 3

Nodes == 1..MaxNodes

\* The null link (parentNode, firstChild, nextSibling of a node that has none).
NoNode == 0

VARIABLES
    dom,    \* the host tree: per node its kind, tag, text, links and properties
    last    \* what the last call gave its caller: the value returned, or the
            \* exception raised

vars == <<dom, last>>

(***************************************************************************)
(* JavaScript values that reach the functions as arguments or results.     *)
(***************************************************************************)
Val(t, s, id) == [t |-> t, s |-> s, id |-> id]

Null == Val("null", "", NoNode)

Undefined == Val("undefined", "", NoNode)

Str(s) == Val("string", s, NoNode)

NodeRef(n) == Val("node", "", n)

Bool(b) == Val("boolean", IF b THEN "true" ELSE "false", NoNode)

\* A plain object  { parentNode: {} } : it has a parent, and neither it nor
\* the parent has any host method.
Stub == Val("stub", "", NoNode)

\* The plain object  {}  that is the Stub's parentNode.
Bare == Val("bare", "", NoNode)

\* !v  is false.
Truthy(v) ==
    /\ v.t \notin {"null", "undefined"}
    /\ ~(v.t = "string" /\ v.s = "")
    /\ v # Bool(FALSE)

\* `${v}` for the values the model passes to template literals.
TemplateString(v) ==
    CASE v.t = "string" -> v.s
      [] v.t = "null" -> "null"
      [] v.t = "undefined" -> "undefined"
      [] OTHER -> "[object Object]"

(***************************************************************************)
(* The host tree.                                                          *)
(***************************************************************************)
Strings == {"", "a"}

\* Names of the properties callers set on node objects, and the keys they
\* are stored under.
DataNames == {"k"}

AttrNames == DataNames \cup {"data-" \o a : a \in DataNames}

PropKeys == AttrNames

\* Tag names, which are the type selectors of the query module's calls.
TagNames == {"div", "p"}

EmptyDom ==
    [kind       |-> [n \in Nodes |-> "free"],
     tag        |-> [n \in Nodes |-> ""],
     data       |-> [n \in Nodes |-> ""],
     parentNode |-> [n \in Nodes |-> NoNode],
     childNodes |-> [n \in Nodes |-> <<>>],
     props      |-> [n \in Nodes |-> [k \in PropKeys |-> Undefined]]]

Allocated(D) == {n \in Nodes : D.kind[n] # "free"}

FreeNodes(D) == Nodes \ Allocated(D)

\* The identity the host gives the next node it creates.
Fresh(D) == CHOOSE n \in FreeNodes(D) : \A m \in FreeNodes(D) : n <= m

IsNode(D, v) == v.t = "node" /\ v.id \in Allocated(D)

IndexOf(seq, x) == CHOOSE i \in 1..Len(seq) : seq[i] = x

Without(seq, x) == SelectSeq(seq, LAMBDA y : y # x)

InsertAt(seq, i, x) == SubSeq(seq, 1, i - 1) \o <<x>> \o SubSeq(seq, i, Len(seq))

FirstChild(D, n) == IF D.childNodes[n] = <<>> THEN NoNode ELSE Head(D.childNodes[n])

NextSibling(D, n) ==
    IF D.parentNode[n] = NoNode THEN NoNode
    ELSE LET sibs == D.childNodes[D.parentNode[n]]
             i == IndexOf(sibs, n)
         IN IF i = Len(sibs) THEN NoNode ELSE sibs[i + 1]

RECURSIVE IsInclusiveAncestor(_, _, _)
\* a is n or an ancestor of n.
IsInclusiveAncestor(D, a, n) ==
    IF a = n THEN TRUE
    ELSE IF D.parentNode[n] = NoNode THEN FALSE
    ELSE IsInclusiveAncestor(D, a, D.parentNode[n])

\* The outcome of a call: the tree after it, the exception it raised ("" for
\* none) and the value it returned.
Outcome(D, raised, ret) == [dom |-> D, raised |-> raised, ret |-> ret]

Return(D, ret) == Outcome(D, "", ret)

Throw(D, exception) == Outcome(D, exception, Undefined)

\* The host removes n from its parent's child list.
Detach(D, n) ==
    IF D.parentNode[n] = NoNode THEN D
    ELSE LET p == D.parentNode[n]
         IN [D EXCEPT !.childNodes[p] = Without(@, n), !.parentNode[n] = NoNode]

\* The host puts n into p's child list before child (at the end for NoNode).
Insert(D, p, n, child) ==
    LET before_ == IF child = n THEN NextSibling(D, n) ELSE child
        D1 == Detach(D, n)
        sibs == D1.childNodes[p]
        i == IF before_ = NoNode THEN Len(sibs) + 1 ELSE IndexOf(sibs, before_)
    IN [D1 EXCEPT !.childNodes[p] = InsertAt(sibs, i, n), !.parentNode[n] = p]

\* document.createTextNode( data )
HostCreateTextNode(D, s) ==
    [D EXCEPT !.kind[Fresh(D)] = "text", !.data[Fresh(D)] = s]

\* document.createElement( tagName )
HostCreateElement(D, tagName) ==
    [D EXCEPT !.kind[Fresh(D)] = "element", !.tag[Fresh(D)] = tagName]

\* p.insertBefore( node, child ) of the host; child is a node, null or undefined.
HostInsertBefore(D, p, node, child) ==
    IF ~IsNode(D, node) THEN Throw(D, "TypeError")
    ELSE IF D.kind[p] # "element" THEN Throw(D, "HierarchyRequestError")
    ELSE IF IsInclusiveAncestor(D, node.id, p) THEN Throw(D, "HierarchyRequestError")
    ELSE IF IsNode(D, child) /\ D.parentNode[child.id] # p THEN Throw(D, "NotFoundError")
    ELSE Return(Insert(D, p, node.id, child.id), node)

\* p.appendChild( node ) of the host.
HostAppendChild(D, p, node) == HostInsertBefore(D, p, node, Null)

\* p.replaceChild( node, child ) of the host.
HostReplaceChild(D, p, node, child) ==
    IF ~IsNode(D, node) \/ ~IsNode(D, child) THEN Throw(D, "TypeError")
    ELSE IF D.kind[p] # "element" THEN Throw(D, "HierarchyRequestError")
    ELSE IF IsInclusiveAncestor(D, node.id, p) THEN Throw(D, "HierarchyRequestError")
    ELSE IF D.parentNode[child.id] # p THEN Throw(D, "NotFoundError")
    ELSE IF node.id = child.id THEN Return(D, child)
    ELSE LET D1 == Insert(D, p, node.id, child.id)
         IN Return(Detach(D1, child.id), child)

\* p.removeChild( child ) of the host.
HostRemoveChild(D, p, child) ==
    IF ~IsNode(D, child) THEN Throw(D, "TypeError")
    ELSE IF D.parentNode[child.id] # p THEN Throw(D, "NotFoundError")
    ELSE Return(Detach(D, child.id), child)

RECURSIVE DetachAll(_, _)
\* The host removes every child of n.
DetachAll(D, n) ==
    IF D.childNodes[n] = <<>> THEN D ELSE DetachAll(Detach(D, Head(D.childNodes[n])), n)

\* element.innerHTML = markup, for the markup "" and for plain text: the
\* children go and the parsed markup (one Text node, or nothing) comes.
HostSetInnerHTML(D, n, markup) ==
    LET D1 == DetachAll(D, n)
    IN IF markup = "" THEN D1
       ELSE LET t == Fresh(D1)
            IN Insert(HostCreateTextNode(D1, markup), n, t, NoNode)

(***************************************************************************)
(* Property reads the functions make on their arguments.                   *)
(***************************************************************************)
\* v.parentNode
ParentNodeOf(D, v) ==
    CASE IsNode(D, v) ->
            IF D.parentNode[v.id] = NoNode THEN Null ELSE NodeRef(D.parentNode[v.id])
      [] v.t = "stub" -> Bare
      [] OTHER -> Undefined

\* v.firstChild
FirstChildOf(D, v) ==
    IF IsNode(D, v)
    THEN IF FirstChild(D, v.id) = NoNode THEN Null ELSE NodeRef(FirstChild(D, v.id))
    ELSE Undefined

\* v.nextSibling
NextSiblingOf(D, v) ==
    IF IsNode(D, v)
    THEN IF NextSibling(D, v.id) = NoNode THEN Null ELSE NodeRef(NextSibling(D, v.id))
    ELSE Undefined

\* Whether v[ name ] is there: the tree methods are on every host node, the
\* selector methods and innerHTML on elements only.
Has(D, v, name) ==
    /\ IsNode(D, v)
    /\ \/ name \in {"insertBefore", "appendChild", "replaceChild", "removeChild"}
       \/ name \in {"matches", "closest", "innerHTML"} /\ D.kind[v.id] = "element"

\* Nodes a call created and left unreferenced are out of the program's reach:
\* their identities go back to the host.
Collect(D0, D1) ==
    LET lost == {n \in Nodes : D0.kind[n] = "free" /\ D1.kind[n] # "free"
                               /\ D1.parentNode[n] = NoNode}
    IN [D1 EXCEPT !.kind = [n \in Nodes |-> IF n \in lost THEN "free" ELSE @[n]],
                  !.data = [n \in Nodes |-> IF n \in lost THEN "" ELSE @[n]]]

\* A mutating function returns undefined; what it raised is the host's.
Settle(D0, R) == Outcome(Collect(D0, R.dom), R.raised, Undefined)

(***************************************************************************)
(* The mutation module.                                                    *)
(***************************************************************************)
text(D, txt) ==
    Return(HostCreateTextNode(D, TemplateString(txt)), NodeRef(Fresh(D)))

normalize(D, el_) == IF el_.t = "string" THEN text(D, el_) ELSE Return(D, el_)

el(D, nodeName, html_) ==
    IF ~Truthy(nodeName) THEN Return(D, Null)
    ELSE LET element == Fresh(D)
             D1 == HostCreateElement(D, TemplateString(nodeName))
         IN IF Truthy(html_)
            THEN Return(HostSetInnerHTML(D1, element, html_.s), NodeRef(element))
            ELSE Return(D1, NodeRef(element))

before(D, elm, ref) ==
    IF ~Truthy(elm) THEN Return(D, Undefined)
    ELSE IF ~Truthy(ref) THEN Return(D, Undefined)
    ELSE IF ~Truthy(ParentNodeOf(D, ref)) THEN Return(D, Undefined)
    ELSE IF ~Has(D, ParentNodeOf(D, ref), "insertBefore") THEN Return(D, Undefined)
    ELSE LET N == normalize(D, elm)
         IN Settle(D, HostInsertBefore(N.dom, ParentNodeOf(D, ref).id, N.ret, ref))


\* after, had it passed ref where ref.nextSibling belongs.
afterAtRef(D, elm, ref) ==
    IF ~Truthy(elm) THEN Return(D, Undefined)
    ELSE IF ~Truthy(ref) THEN Return(D, Undefined)
    ELSE IF ~Truthy(ParentNodeOf(D, ref)) THEN Return(D, Undefined)
    ELSE IF ~Has(D, ParentNodeOf(D, ref), "insertBefore") THEN Return(D, Undefined)
    ELSE LET N == normalize(D, elm)
         IN Settle(D, HostInsertBefore(N.dom, ParentNodeOf(D, ref).id, N.ret, ref))

after(D, elm, ref) ==
    IF ~Truthy(elm) THEN Return(D, Undefined)
    ELSE IF ~Truthy(ref) THEN Return(D, Undefined)
    ELSE IF ~Truthy(ParentNodeOf(D, ref)) THEN Return(D, Undefined)
    ELSE IF ~Has(D, ParentNodeOf(D, ref), "insertBefore") THEN Return(D, Undefined)
    ELSE LET N == normalize(D, elm)
         IN Settle(D, HostInsertBefore(N.dom, ParentNodeOf(D, ref).id, N.ret,
                                       NextSiblingOf(D, ref)))


\* append, had it pushed the node onto the container's child list itself
\* instead of handing it to the host.
appendByHand(D, elm, ref) ==
    IF ~Truthy(elm) THEN Return(D, Undefined)
    ELSE IF ~Truthy(ref) THEN Return(D, Undefined)
    ELSE IF ~Has(D, ref, "appendChild") THEN Return(D, Undefined)
    ELSE LET N == normalize(D, elm)
         IN IF ~IsNode(N.dom, N.ret) \/ D.kind[ref.id] # "element"
               \/ IsInclusiveAncestor(N.dom, N.ret.id, ref.id)
            THEN Throw(D, "TypeError")
            ELSE Return([N.dom EXCEPT !.childNodes[ref.id] = @ \o <<N.ret.id>>,
                                      !.parentNode[N.ret.id] = ref.id], Undefined)

append(D, elm, ref) ==
    IF ~Truthy(elm) THEN Return(D, Undefined)
    ELSE IF ~Truthy(ref) THEN Return(D, Undefined)
    ELSE IF ~Has(D, ref, "appendChild") THEN Return(D, Undefined)
    ELSE LET N == normalize(D, elm)
         IN Settle(D, HostAppendChild(N.dom, ref.id, N.ret))


\* prepend, had it appended.
prependAtEnd(D, elm, ref) ==
    IF ~Truthy(elm) THEN Return(D, Undefined)
    ELSE IF ~Truthy(ref) THEN Return(D, Undefined)
    ELSE IF ~Has(D, ref, "appendChild") THEN Return(D, Undefined)
    ELSE LET N == normalize(D, elm)
         IN Settle(D, HostAppendChild(N.dom, ref.id, N.ret))

prepend(D, elm, ref) ==
    IF ~Truthy(elm) THEN Return(D, Undefined)
    ELSE IF ~Truthy(ref) THEN Return(D, Undefined)
    ELSE IF ~Has(D, ref, "appendChild") THEN Return(D, Undefined)
    ELSE LET N == normalize(D, elm)
         IN Settle(D, before(N.dom, N.ret, FirstChildOf(D, ref)))


\* replace, had it put elm before ref and left ref where it is.
replaceKeepsRef(D, elm, ref) ==
    IF ~Truthy(elm) THEN Return(D, Undefined)
    ELSE IF ~Truthy(ref) THEN Return(D, Undefined)
    ELSE LET parent_ == IF Truthy(ParentNodeOf(D, elm)) THEN ParentNodeOf(D, elm)
                        ELSE IF Truthy(ParentNodeOf(D, ref)) THEN ParentNodeOf(D, ref)
                        ELSE Null
         IN IF ~Truthy(parent_) THEN Return(D, Undefined)
            ELSE IF ~Has(D, parent_, "replaceChild") THEN Throw(D, "TypeError")
            ELSE LET N1 == normalize(D, elm)
                     N2 == normalize(N1.dom, ref)
                 IN Settle(D, HostInsertBefore(N2.dom, parent_.id, N1.ret, N2.ret))

replace(D, elm, ref) ==
    IF ~Truthy(elm) THEN Return(D, Undefined)
    ELSE IF ~Truthy(ref) THEN Return(D, Undefined)
    ELSE LET parent_ == IF Truthy(ParentNodeOf(D, elm)) THEN ParentNodeOf(D, elm)
                        ELSE IF Truthy(ParentNodeOf(D, ref)) THEN ParentNodeOf(D, ref)
                        ELSE Null
         IN IF ~Truthy(parent_) THEN Return(D, Undefined)
            ELSE IF ~Has(D, parent_, "replaceChild") THEN Throw(D, "TypeError")
            ELSE LET N1 == normalize(D, elm)
                     N2 == normalize(N1.dom, ref)
                 IN Settle(D, HostReplaceChild(N2.dom, parent_.id, N1.ret, N2.ret))


\* remove, had it taken the parent's first child instead of elm.
removeFirstChild(D, elm) ==
    IF ~Truthy(elm) THEN Return(D, Undefined)
    ELSE IF ~Truthy(ParentNodeOf(D, elm)) THEN Return(D, Undefined)
    ELSE IF ~Has(D, ParentNodeOf(D, elm), "removeChild") THEN Throw(D, "TypeError")
    ELSE Settle(D, HostRemoveChild(D, ParentNodeOf(D, elm).id,
                                   FirstChildOf(D, ParentNodeOf(D, elm))))

remove(D, elm) ==
    IF ~Truthy(elm) THEN Return(D, Undefined)
    ELSE IF ~Truthy(ParentNodeOf(D, elm)) THEN Return(D, Undefined)
    ELSE IF ~Has(D, ParentNodeOf(D, elm), "removeChild") THEN Throw(D, "TypeError")
    ELSE Settle(D, HostRemoveChild(D, ParentNodeOf(D, elm).id, elm))

html(D, elm, innerHtml) ==
    IF ~Truthy(elm) THEN Return(D, Undefined)
    ELSE IF ~Has(D, elm, "innerHTML") THEN Return(D, Undefined)
    ELSE Return(HostSetInnerHTML(D, elm.id, TemplateString(innerHtml)), Undefined)

setAttr(D, elm, attribute, value) ==
    IF ~Truthy(elm) THEN Return(D, Undefined)
    ELSE IF IsNode(D, elm)
         THEN Return([D EXCEPT !.props[elm.id][attribute] = value], Undefined)
    \* Module code is strict: a property cannot be created on a primitive.
    ELSE IF elm.t = "string" THEN Throw(D, "TypeError")
    \* The property lands on the caller's own object, outside the tree.
    ELSE Return(D, Undefined)

attr(D, elm, attribute) ==
    IF ~Truthy(elm) THEN Return(D, Null)
    ELSE IF IsNode(D, elm) THEN Return(D, D.props[elm.id][attribute])
    ELSE Return(D, Undefined)

setData(D, elm, attribute, value) ==
    IF ~Truthy(elm) THEN Return(D, Undefined)
    ELSE IF IsNode(D, elm)
         THEN Return([D EXCEPT !.props[elm.id]["data-" \o attribute] = value], Undefined)
    ELSE IF elm.t = "string" THEN Throw(D, "TypeError")
    ELSE Return(D, Undefined)

data(D, elm, attribute) ==
    IF ~Truthy(elm) THEN Return(D, Null)
    ELSE IF IsNode(D, elm) THEN Return(D, D.props[elm.id]["data-" \o attribute])
    ELSE Return(D, Undefined)

(***************************************************************************)
(* The query module.                                                       *)
(***************************************************************************)
\* element.matches( selectors ) of the host, for type selectors: the argument
\* is converted to a string, and the empty string is no selector.
HostMatches(D, n, selector) ==
    IF TemplateString(selector) = "" THEN Throw(D, "SyntaxError")
    ELSE Return(D, Bool(D.tag[n] = TemplateString(selector)))

RECURSIVE HostClosest(_, _, _)
\* element.closest( selectors ) of the host: the nearest inclusive ancestor
\* that matches.
HostClosest(D, n, selector) ==
    IF selector = "" THEN Throw(D, "SyntaxError")
    ELSE IF D.kind[n] = "element" /\ D.tag[n] = selector THEN Return(D, NodeRef(n))
    ELSE IF D.parentNode[n] = NoNode THEN Return(D, Null)
    ELSE HostClosest(D, D.parentNode[n], selector)

matches(D, el_, selector) ==
    IF ~Truthy(el_) THEN Return(D, Null)
    ELSE IF ~Has(D, el_, "matches") THEN Return(D, Null)
    ELSE HostMatches(D, el_.id, selector)

parent(D, el_) ==
    IF ~Truthy(el_) THEN Return(D, Null)
    ELSE IF ~Truthy(ParentNodeOf(D, el_)) THEN Return(D, Null)
    ELSE Return(D, ParentNodeOf(D, el_))


\* closest, had it started the walk at the parent.
closestFromParent(D, el_, selector) ==
    IF ~Truthy(el_) THEN Return(D, Null)
    ELSE IF ~Has(D, el_, "closest") THEN Return(D, Null)
    ELSE IF ~Truthy(selector) THEN Return(D, Null)
    ELSE IF ~Truthy(ParentNodeOf(D, el_)) THEN Return(D, Null)
    ELSE HostClosest(D, ParentNodeOf(D, el_).id, TemplateString(selector))

closest(D, el_, selector) ==
    IF ~Truthy(el_) THEN Return(D, Null)
    ELSE IF ~Has(D, el_, "closest") THEN Return(D, Null)
    ELSE IF ~Truthy(selector) THEN Return(D, Null)
    ELSE HostClosest(D, el_.id, TemplateString(selector))

(***************************************************************************)
(* Calls.                                                                  *)
(***************************************************************************)
NodeArgs(D) == {NodeRef(n) : n \in Allocated(D)}

\* What a caller can pass where a node is expected: nothing, text, a node it
\* holds, an object that is no host node.
Args(D) == {Null, Undefined, Stub} \cup {Str(s) : s \in Strings} \cup NodeArgs(D)

\* What a caller can pass as a property value.
Values == {Str("v"), Str("w")}

\* What a caller can pass as a selector.
Selectors == {Null, Undefined, Str("")} \cup {Str(s) : s \in TagNames}

\* The host has k node identities left to give.
Room(D, k) == Cardinality(FreeNodes(D)) >= k

\* normalize( v ) asks the host for a Text node.
NeedsText(v) == v.t = "string" /\ v.s # ""

\* A call came out as R.
Called(R) ==
    /\ dom' = R.dom
    /\ last' = [raised |-> R.raised, ret |-> R.ret]

TextCall ==
    \E txt \in {Str("a")} :
        /\ Room(dom, 1)
        /\ Called(text(dom, txt))

Create(nodeNames, markups) ==
    \E nodeName \in nodeNames, html_ \in markups :
        /\ Truthy(nodeName) => Room(dom, IF Truthy(html_) THEN 2 ELSE 1)
        /\ Called(el(dom, nodeName, html_))

ElCall == Create({Str(""), Str("div")}, {Str(""), Str("a")})

BeforeCall ==
    \E elm \in Args(dom), ref \in Args(dom) :
        /\ NeedsText(elm) => Room(dom, 1)
        /\ Called(before(dom, elm, ref))

AfterCall ==
    \E elm \in Args(dom), ref \in Args(dom) :
        /\ NeedsText(elm) => Room(dom, 1)
        /\ Called(after(dom, elm, ref))

AppendCall ==
    \E elm \in Args(dom), ref \in Args(dom) :
        /\ NeedsText(elm) => Room(dom, 1)
        /\ Called(append(dom, elm, ref))

PrependCall ==
    \E elm \in Args(dom), ref \in Args(dom) :
        /\ NeedsText(elm) => Room(dom, 1)
        /\ Called(prepend(dom, elm, ref))

ReplaceCall ==
    \E elm \in Args(dom), ref \in Args(dom) :
        /\ (NeedsText(elm) \/ NeedsText(ref)) => Room(dom, 1)
        /\ Called(replace(dom, elm, ref))

RemoveCall ==
    \E elm \in Args(dom) :
        Called(remove(dom, elm))

HtmlCall ==
    \E elm \in Args(dom), innerHtml \in {Str(""), Str("a")} :
        /\ NeedsText(innerHtml) => Room(dom, 1)
        /\ Called(html(dom, elm, innerHtml))

SetAttrCall ==
    \E elm \in Args(dom), attribute \in AttrNames, value \in Values :
        Called(setAttr(dom, elm, attribute, value))

AttrCall ==
    \E elm \in Args(dom) \ {Stub}, attribute \in AttrNames :
        Called(attr(dom, elm, attribute))

SetDataCall ==
    \E elm \in Args(dom), attribute \in DataNames, value \in Values :
        Called(setData(dom, elm, attribute, value))

DataCall ==
    \E elm \in Args(dom) \ {Stub}, attribute \in DataNames :
        Called(data(dom, elm, attribute))

MatchesCall ==
    \E el_ \in Args(dom), selector \in Selectors :
        Called(matches(dom, el_, selector))

ParentCall ==
    \E el_ \in Args(dom) :
        Called(parent(dom, el_))

ClosestCall ==
    \E el_ \in Args(dom), selector \in Selectors :
        Called(closest(dom, el_, selector))

Init ==
    /\ dom = EmptyDom
    /\ last = [raised |-> "", ret |-> Undefined]

\* The tree and the calls that rearrange it.
Next ==
    \/ TextCall
    \/ ElCall
    \/ BeforeCall
    \/ AfterCall
    \/ AppendCall
    \/ PrependCall
    \/ ReplaceCall
    \/ RemoveCall
    \/ HtmlCall

Spec == Init /\ [][Next]_vars

\* Nodes and the properties set on them.
AttrNext ==
    \/ Create({Str("div")}, {Str("")})
    \/ SetAttrCall
    \/ AttrCall
    \/ SetDataCall
    \/ DataCall

AttrSpec == Init /\ [][AttrNext]_vars

\* Trees of elements of several tags, and the calls that query them.
QueryNext ==
    \/ Create({Str(s) : s \in TagNames}, {Str(""), Str("a")})
    \/ AppendCall
    \/ MatchesCall
    \/ ParentCall
    \/ ClosestCall

QuerySpec == Init /\ [][QueryNext]_vars

(***************************************************************************)
(* Properties.  Each is stated of the functions applied to the tree of     *)
(* every reachable state, for every argument a caller can pass there.      *)
(***************************************************************************)
\* The host can serve the Text node that normalize( v ) asks for.
CanPass(v) == NeedsText(v) => Room(dom, 1)

IsElement(D, v) == IsNode(D, v) /\ D.kind[v.id] = "element"

Attached(D, v) == IsNode(D, v) /\ D.parentNode[v.id] # NoNode

Detached(D, v) == IsNode(D, v) /\ D.parentNode[v.id] = NoNode

Occurs(seq, x) == \E i \in 1..Len(seq) : seq[i] = x

\* ---------------------------------------------------------------- C1
EmptyContainer(v) == IsElement(dom, v) /\ dom.childNodes[v.id] = <<>>

\* C1: prepend into an empty container.  For every container that has the
\* append capability and no children, and every C that is a detached node or
\* a non-empty string, prepend(C, container) leaves the container with the
\* child list [C] (for a string, one new Text node of that content), which is
\* what append(C, container) leaves.
C1_PrependIntoEmpty ==
    \A elm \in Args(dom), ref \in NodeArgs(dom) :
        (/\ EmptyContainer(ref)
         /\ CanPass(elm)
         /\ \/ NeedsText(elm)
            \/ Detached(dom, elm) /\ ~IsInclusiveAncestor(dom, elm.id, ref.id))
        => LET R == prepend(dom, elm, ref)
               kids == R.dom.childNodes[ref.id]
           IN /\ R.raised = ""
              /\ R.dom = append(dom, elm, ref).dom
              /\ Len(kids) = 1
              /\ IF IsNode(dom, elm) THEN kids[1] = elm.id
                 ELSE /\ kids[1] \in FreeNodes(dom)
                      /\ R.dom.kind[kids[1]] = "text"
                      /\ R.dom.data[kids[1]] = elm.s

\* ---------------------------------------------------------------- C2
\* A required input is absent, or the reference is no host node.
Lacking(elm, ref) == ~Truthy(elm) \/ ~Truthy(ref) \/ ~IsNode(dom, ref)

FailSoft(R, lacking) == R.raised = "" /\ (lacking => R.dom = dom)

\* C2: fail-soft.  Every call of before, after, append, prepend, replace,
\* remove, html, setAttr and setData, with arguments drawn from absent, string,
\* detached node, attached node and an object whose parent lacks the host
\* methods, returns without raising, and leaves the tree as it was when a
\* required input or capability is missing.
C2_FailSoft ==
    /\ \A elm \in Args(dom), ref \in Args(dom) :
            (CanPass(elm) /\ CanPass(ref)) =>
                /\ FailSoft(before(dom, elm, ref), Lacking(elm, ref))
                /\ FailSoft(after(dom, elm, ref), Lacking(elm, ref))
                /\ FailSoft(append(dom, elm, ref), Lacking(elm, ref))
                /\ FailSoft(prepend(dom, elm, ref), Lacking(elm, ref))
                /\ FailSoft(replace(dom, elm, ref), Lacking(elm, ref))
    /\ \A elm \in Args(dom) :
            /\ FailSoft(remove(dom, elm), ~IsNode(dom, elm))
            /\ \A innerHtml \in {Str(""), Str("a")} :
                    CanPass(innerHtml) =>
                        FailSoft(html(dom, elm, innerHtml), ~IsNode(dom, elm))
            /\ \A attribute \in AttrNames, value \in Values :
                    FailSoft(setAttr(dom, elm, attribute, value), ~IsNode(dom, elm))
            /\ \A attribute \in DataNames, value \in Values :
                    FailSoft(setData(dom, elm, attribute, value), ~IsNode(dom, elm))

\* ---------------------------------------------------------------- C3
\* oldNode is a child of some parent and newNode has no parent.
ReplaceCase(newNode, oldNode) == Detached(dom, newNode) /\ Attached(dom, oldNode)

\* replace left newNode at oldNode's place, and oldNode without a parent.
Replaced(newNode, oldNode) ==
    LET P == dom.parentNode[oldNode.id]
        i == IndexOf(dom.childNodes[P], oldNode.id)
        R == replace(dom, newNode, oldNode)
    IN /\ R.raised = ""
       /\ R.dom.childNodes[P] = [dom.childNodes[P] EXCEPT ![i] = newNode.id]
       /\ R.dom.parentNode[newNode.id] = P
       /\ R.dom.parentNode[oldNode.id] = NoNode

NewTextAt(R, p, s, kids) ==
    /\ R.raised = ""
    /\ Allocated(R.dom) = Allocated(dom) \cup {Fresh(dom)}
    /\ R.dom.kind[Fresh(dom)] = "text"
    /\ R.dom.data[Fresh(dom)] = s
    /\ R.dom.childNodes[p] = kids

\* C4: literal text is accepted wherever a node is expected.  For every
\* string s, the empty string included, before, after, append and prepend
\* called with s and an attached reference (a capable container) insert
\* exactly one new Text node of content s at the place the operation
\* defines.
C4_LiteralText ==
    \A s \in Strings, ref \in NodeArgs(dom) :
        Room(dom, 1) =>
            LET t == Fresh(dom)
            IN /\ Attached(dom, ref) =>
                    LET P == dom.parentNode[ref.id]
                        i == IndexOf(dom.childNodes[P], ref.id)
                    IN /\ NewTextAt(before(dom, Str(s), ref), P, s,
                                    InsertAt(dom.childNodes[P], i, t))
                       /\ NewTextAt(after(dom, Str(s), ref), P, s,
                                    InsertAt(dom.childNodes[P], i + 1, t))
               /\ IsElement(dom, ref) =>
                    /\ NewTextAt(append(dom, Str(s), ref), ref.id, s,
                                 dom.childNodes[ref.id] \o <<t>>)
                    /\ NewTextAt(prepend(dom, Str(s), ref), ref.id, s,
                                 <<t>> \o dom.childNodes[ref.id])

\* ---------------------------------------------------------------- C5
\* The container has children and C is a node that is not one of them.
PrependCase(C, container) ==
    /\ IsElement(dom, container)
    /\ dom.childNodes[container.id] # <<>>
    /\ IsNode(dom, C)
    /\ dom.parentNode[C.id] # container.id

Prepended(C, container) ==
    LET R == prepend(dom, C, container)
    IN /\ R.raised = ""
       /\ R.dom.childNodes[container.id] = <<C.id>> \o dom.childNodes[container.id]

SiblingInserted(X, reference) ==
    LET P == dom.parentNode[reference.id]
        A == after(dom, X, reference)
        B == before(dom, X, reference)
    IN /\ A.raised = ""
       /\ NextSibling(A.dom, reference.id) = X.id
       /\ NextSibling(dom, reference.id) = NoNode
            => A.dom.childNodes[P][Len(A.dom.childNodes[P])] = X.id
       /\ Without(A.dom.childNodes[P], X.id) = Without(dom.childNodes[P], X.id)
       /\ B.raised = ""
       /\ NextSibling(B.dom, X.id) = reference.id
       /\ Without(B.dom.childNodes[P], X.id) = Without(dom.childNodes[P], X.id)

Places(D, n) ==
    {pi \in Nodes \X (1..MaxNodes) :
        pi[2] <= Len(D.childNodes[pi[1]]) /\ D.childNodes[pi[1]][pi[2]] = n}

SingleParent(D) ==
    \A n \in Nodes :
        /\ Cardinality(Places(D, n)) <= 1
        /\ \A p \in Nodes : D.parentNode[n] = p <=> Occurs(D.childNodes[p], n)

\* The call moved elm away from the parent it had, and out of that parent's
\* child list.
MovedOut(R, elm) ==
    (R.raised = "" /\ R.dom.parentNode[elm.id] # dom.parentNode[elm.id])
        => ~Occurs(R.dom.childNodes[dom.parentNode[elm.id]], elm.id)

C8_Remove ==
    \A elm \in Args(dom) :
        LET R == remove(dom, elm)
        IN /\ Attached(dom, elm) =>
                LET P == dom.parentNode[elm.id]
                IN /\ R.raised = ""
                   /\ R.dom = [dom EXCEPT !.parentNode[elm.id] = NoNode,
                                          !.childNodes[P] = Without(@, elm.id)]
                   /\ Len(R.dom.childNodes[P]) = Len(dom.childNodes[P]) - 1
           /\ (~Truthy(elm) \/ Detached(dom, elm)) => (R.raised = "" /\ R.dom = dom)
           /\ remove(R.dom, elm).dom = R.dom

\* A tree where remove takes a child that has a sibling in front of it.
C8_RemoveWitness ==
    \E elm \in NodeArgs(dom) :
        /\ Attached(dom, elm)
        /\ FirstChild(dom, dom.parentNode[elm.id]) # elm.id
        /\ remove(dom, elm).dom.parentNode[elm.id] = NoNode

\* ---------------------------------------------------------------- C9
\* C9: attribute access.  For every node n, name k and value v: attr(n, k)
\* after setAttr(n, k, v) is v and data(n, k) after setData(n, k, v) is v;
\* setData(n, k, v) stores under 'data-' + k, leaving attr(n, k) as it was and
\* making attr(n, 'data-' + k) v; attr and data of an absent node are null and
\* the setters change nothing there; and a getter gives a value or null, no
\* other sentinel, for an attribute that was never set.
C9_AttributeAccess ==
    /\ \A n \in NodeArgs(dom), v \in Values :
            /\ \A k \in AttrNames :
                    attr(setAttr(dom, n, k, v).dom, n, k).ret = v
            /\ \A k \in DataNames :
                    LET D1 == setData(dom, n, k, v).dom
                    IN /\ data(D1, n, k).ret = v
                       /\ attr(D1, n, k).ret = attr(dom, n, k).ret
                       /\ attr(D1, n, "data-" \o k).ret = v
    /\ \A k \in AttrNames, v \in Values :
            /\ attr(dom, Null, k).ret = Null
            /\ setAttr(dom, Null, k, v).dom = dom
    /\ \A k \in DataNames, v \in Values :
            /\ data(dom, Null, k).ret = Null
            /\ setData(dom, Null, k, v).dom = dom
    /\ \A n \in NodeArgs(dom) :
            /\ \A k \in AttrNames : attr(dom, n, k).ret # Undefined
            /\ \A k \in DataNames : data(dom, n, k).ret # Undefined

\* ---------------------------------------------------------------- C10
RECURSIVE NearestMatch(_, _)
\* The first node on the chain from n to the root that matches says it
\* satisfies the selector; NoNode when none does.
NearestMatch(n, selector) ==
    IF matches(dom, NodeRef(n), selector).ret = Bool(TRUE) THEN n
    ELSE IF dom.parentNode[n] = NoNode THEN NoNode
    ELSE NearestMatch(dom.parentNode[n], selector)

====
